---- MODULE Spec2Model ----
(***************************************************************************)
(* Model of SERVIDOR_LASTVALUE/server.py: the last-value lookup            *)
(* (SQL_LAST / fetch_last), the row assembly (build_rows), the two         *)
(* presenters (api_schuler, dashboard_schuler) and the single-pair         *)
(* endpoint (get_value_by_path), together with the life cycle of the       *)
(* SQLite connection each request opens (get_conn).                        *)
(*                                                                         *)
(* Text is a sequence of one-character strings, so that what a table cell  *)
(* holds can be inspected character by character.  Python's None and       *)
(* SQL's NULL are records with a flag, so that every value of one kind has *)
(* one shape.                                                              *)
(***************************************************************************)
EXTENDS Integers, Sequences, FiniteSets, TLC

VARIABLES
    dbExists,   \* DB_PATH.exists()
    store,      \* the rows of table last_value
    writes,     \* number of changes the external writer has made
    pc,         \* per request: where its handler is
    ep,         \* per request: the route it was sent to
    arg,        \* per request: the path parameters of /value/{dp_id}/{el_id}
    cell,       \* per request: index of the next (machine, element) of build_rows
    rows,       \* per request: the local list `rows` of build_rows
    ret,        \* per request: how build_rows ended
    con,        \* per request: its connection
    resp,       \* per request: the HTTP response
    fault,      \* per request: the store failure it met, if any
    seen        \* per request: the store contents that existed since it connected

vars == <<dbExists, store, writes, pc, ep, arg, cell, rows, ret, con, resp, fault, seen>>

---------------------------------------------------------------------------
(* Bounds of the model *)

\* Largest number of rows of last_value in an initial store.
MaxRecords == 2

\* Number of changes the external writer makes at most.
MaxWrites == 2

---------------------------------------------------------------------------
(* Configuration: server.py lines 31-55 *)

SCHULERS ==
    << [name |-> "Schuler1", dp |-> 982],
       [name |-> "Schuler2", dp |-> 1028],
       [name |-> "Schuler3", dp |-> 1029],
       [name |-> "Schuler4", dp |-> 810],
       [name |-> "Schuler5", dp |-> 1030] >>

EL_IDS == <<69, 48, 116, 154, 152, 153, 52, 54, 160, 137, 50>>

DPELEMENT_BY_EL ==
    (69  :> "Barras.VelocidadAcunado.Valor") @@
    (48  :> "DatosGen.ModoTrabajo.Led") @@
    (116 :> "DatosGen.ModoTrabajo.Modo") @@
    (154 :> "DatosGen.Denominacion") @@
    (152 :> "DatosGen.OT") @@
    (153 :> "DatosGen.Operador") @@
    (52  :> "Tendencia.Avance") @@
    (54  :> "OEE.Rendimiento") @@
    (160 :> "Tendencia.MetaActual") @@
    (137 :> "TiempoMuerto") @@
    (50  :> "Tendencia.Programado")

\* DPELEMENT_BY_EL.get(el, f"el_{el}")
Etiqueta(el) ==
    IF el \in DOMAIN DPELEMENT_BY_EL THEN DPELEMENT_BY_EL[el]
                                     ELSE "el_" \o ToString(el)

NumCells == Len(SCHULERS) * Len(EL_IDS)

\* CellSchuler with the machines as the inner loop.
CellSchuler_InnerLoop(k) == SCHULERS[((k - 1) % Len(SCHULERS)) + 1]

\* The k-th iteration of the nested loops of build_rows: machines outside,
\* elements inside.
CellSchuler(k) == SCHULERS[((k - 1) \div Len(EL_IDS)) + 1]
CellEl(k) == EL_IDS[((k - 1) % Len(EL_IDS)) + 1]

---------------------------------------------------------------------------
(* Text and SQL values *)

\* The characters that occur, in code point order.
Ascii == << " ", "\"", "&", "'", "-", ".", "0", "1", "2", "3", "4", "5", "6",
            "7", "8", "9", ":", "<", ">", "b" >>

Ord(c) == CHOOSE i \in 1..Len(Ascii) : Ascii[i] = c

\* Python's None / str.
None == [none |-> TRUE, s |-> <<>>]
Str(s) == [none |-> FALSE, s |-> s]

\* A stored scalar of column value.
SqlNull == [kind |-> "null", i |-> 0, t |-> <<>>]
SqlInt(n) == [kind |-> "integer", i |-> n, t |-> <<>>]
SqlText(s) == [kind |-> "text", i |-> 0, t |-> s]

\* A stored system_time: nanoseconds since the epoch, or NULL.
TimeNull == [isnull |-> TRUE, ns |-> 0]
TimeNs(n) == [isnull |-> FALSE, ns |-> n]

Digit(d) == Ascii[Ord("0") + d]

RECURSIVE Decimal(_)
Decimal(n) == IF n < 10 THEN <<Digit(n)>> ELSE Decimal(n \div 10) \o <<Digit(n % 10)>>

\* CAST(value AS TEXT)
CastText(v) ==
    CASE v.kind = "null"    -> None
      [] v.kind = "integer" -> Str(IF v.i < 0 THEN <<"-">> \o Decimal(-v.i) ELSE Decimal(v.i))
      [] OTHER              -> Str(v.t)

Pad2(n) == <<Digit(n \div 10), Digit(n % 10)>>
Pad4(n) == <<Digit(n \div 1000), Digit((n \div 100) % 10)>> \o Pad2(n % 100)

\* Divisor of system_time in SQL_LAST.
NsPerSec == 1000000000

\* Offset of the host's zone that the modifier 'localtime' adds, in seconds: a
\* host on UTC.
LocalOffsetSec == 0

\* The date of a day number (days since 1970-01-01) in the proleptic
\* Gregorian calendar, as <<year, month, day>>.
CivilFromDays(days) ==
    LET z   == days + 719468
        era == z \div 146097
        doe == z - era * 146097
        yoe == (doe - doe \div 1460 + doe \div 36524 - doe \div 146096) \div 365
        doy == doe - (365 * yoe + yoe \div 4 - yoe \div 100)
        mp  == (5 * doy + 2) \div 153
        d   == doy - (153 * mp + 2) \div 5 + 1
        m   == IF mp < 10 THEN mp + 3 ELSE mp - 9
        y   == yoe + era * 400 + (IF m <= 2 THEN 1 ELSE 0)
    IN  <<y, m, d>>

\* strftime('%Y-%m-%d %H:%M:%S', system_time/1000000000, 'unixepoch', 'localtime')
Strftime(t) ==
    IF t.isnull THEN None
    ELSE LET secs == (t.ns \div NsPerSec) + LocalOffsetSec
             ymd  == CivilFromDays(secs \div 86400)
             sod  == secs % 86400
         IN  Str(Pad4(ymd[1]) \o <<"-">> \o Pad2(ymd[2]) \o <<"-">> \o Pad2(ymd[3])
                 \o <<" ">> \o Pad2(sod \div 3600) \o <<":">>
                 \o Pad2((sod \div 60) % 60) \o <<":">> \o Pad2(sod % 60))

\* Text comparison of SQLite's BINARY collation.
RECURSIVE TextLess(_, _)
TextLess(a, b) ==
    IF b = <<>> THEN FALSE
    ELSE IF a = <<>> THEN TRUE
    ELSE IF Head(a) = Head(b) THEN TextLess(Tail(a), Tail(b))
    ELSE Ord(Head(a)) < Ord(Head(b))

\* Order of the sort key: NULL sorts before every text.
KeyLess(a, b) ==
    IF b.none THEN FALSE
    ELSE IF a.none THEN TRUE
    ELSE TextLess(a.s, b.s)

---------------------------------------------------------------------------
(* SQL_LAST and fetch_last: server.py lines 88-101 *)

\* fetch_last's "no record".
NoRow == [found |-> FALSE, dp_id |-> 0, el_id |-> 0, value |-> None, system_time |-> None]

\* The result columns of SQL_LAST for one stored record.
SelectColumns(rec) ==
    [found |-> TRUE, dp_id |-> rec.dp_id, el_id |-> rec.el_id,
     value |-> CastText(rec.value), system_time |-> Strftime(rec.system_time)]

\* WHERE dp_id = ? AND el_id = ?
Matching(st, dp, el) == {rec \in st : rec.dp_id = dp /\ rec.el_id = el}

\* ORDER BY system_time DESC: the name system_time is the alias of the result
\* column, so the sort key is the formatted text, not the stored number.
OrderKey(rec) == SelectColumns(rec).system_time

\* The records LIMIT 1 may keep: those no other record sorts after.  SQLite
\* leaves the order among equal keys unspecified.
SQL_LAST(st, dp, el) ==
    {m \in Matching(st, dp, el) :
        \A o \in Matching(st, dp, el) : ~KeyLess(OrderKey(m), OrderKey(o))}

\* The values fetch_last(con, dp_id, el_id) may return on store content st.
fetch_last(st, dp, el) ==
    IF Matching(st, dp, el) = {} THEN {NoRow}
    ELSE {SelectColumns(m) : m \in SQL_LAST(st, dp, el)}

---------------------------------------------------------------------------
(* Inputs of the model *)

Requests == {"r1", "r2"}

Routes == {"/api/schuler", "/dashboard/schuler", "/value"}

\* dp_id queried by SERVIDORPYTHON1/pruebas.py: a source no machine is configured for.
PruebasDp == 10

\* Keys of the records a store may hold: the first cell of build_rows, its
\* last cell, and a pair outside the configuration.
FirstKey == <<SCHULERS[1].dp, EL_IDS[1]>>
LastKey == <<SCHULERS[Len(SCHULERS)].dp, EL_IDS[Len(EL_IDS)]>>
PruebasKey == <<PruebasDp, EL_IDS[1]>>

StoreKeys == {FirstKey, LastKey, PruebasKey}

SqlValues == {SqlNull, SqlInt(0), SqlText(<<"<", "b", ">">>), SqlText(<<>>)}

\* Two stored times inside the same second, one in the next second, and NULL.
SqlTimes == {TimeNull, TimeNs(NsPerSec), TimeNs(NsPerSec + 1), TimeNs(2 * NsPerSec)}

Record(k, v, t) == [dp_id |-> k[1], el_id |-> k[2], value |-> v, system_time |-> t]

\* Every value at every time for the first cell; a few records for the other keys.
StoreRecords ==
    {Record(FirstKey, v, t) : v \in SqlValues, t \in SqlTimes}
    \cup {Record(LastKey, SqlInt(0), TimeNs(2 * NsPerSec)),
          Record(LastKey, SqlNull, TimeNull),
          Record(PruebasKey, SqlText(<<"<", "b", ">">>), TimeNs(NsPerSec))}

RECURSIVE SubsetsUpTo(_, _)
SubsetsUpTo(S, n) ==
    IF n = 0 THEN {{}}
    ELSE LET smaller == SubsetsUpTo(S, n - 1)
         IN  smaller \cup {s \cup {x} : s \in smaller, x \in S}

Stores == SubsetsUpTo(StoreRecords, MaxRecords)

\* Path parameters of /value/{dp_id}/{el_id}.  wide marks a dp_id of 2^63 or
\* more: a Python int that is no SQLite INTEGER.
NoArg == [dp_id |-> 0, el_id |-> 0, wide |-> FALSE]

PathArgs ==
    {[dp_id |-> k[1], el_id |-> k[2], wide |-> FALSE] : k \in StoreKeys}
    \cup {[dp_id |-> SCHULERS[1].dp, el_id |-> EL_IDS[2], wide |-> FALSE],
          [dp_id |-> SCHULERS[1].dp, el_id |-> EL_IDS[1], wide |-> TRUE]}

\* What the external writer of last_value stores while requests run.
WriterRecords ==
    {[dp_id |-> SCHULERS[1].dp, el_id |-> e, value |-> SqlInt(0),
      system_time |-> TimeNs(NsPerSec)] : e \in {EL_IDS[1], EL_IDS[2]}}

---------------------------------------------------------------------------
(* Responses *)

NoConn == [opened |-> 0, closed |-> 0, open |-> FALSE]

NoResp == [status |-> 0, cause |-> "", json |-> <<>>, html |-> <<>>, value |-> NoRow]

\* get_conn reporting the missing file as "not found".
HTTPException500_As404 == [NoResp EXCEPT !.status = 404, !.cause = "HTTPException"]

\* raise HTTPException(500, ...) in get_conn.
HTTPException500 == [NoResp EXCEPT !.status = 500, !.cause = "HTTPException"]

\* raise HTTPException(404, ...) in get_value_by_path.
HTTPException404 == [NoResp EXCEPT !.status = 404, !.cause = "HTTPException"]

\* An exception no handler catches: the framework answers 500.
Unhandled(exc) == [NoResp EXCEPT !.status = 500, !.cause = exc]

---------------------------------------------------------------------------
(* build_rows: server.py lines 103-125 *)

\* The dict appended for one (machine, element): r is fetch_last's result.
RowOf(sch, el, r) ==
    [Schuler   |-> sch.name,
     DP        |-> sch.dp,
     DPELEMENT |-> Etiqueta(el),
     EL_ID     |-> el,
     Valor     |-> IF r.found THEN r.value ELSE None,
     FechaHora |-> IF r.found THEN r.system_time ELSE None]

\* AppendRow that appends nothing when the lookup found no record.
AppendRow_SkipMissing(rs, sch, el, r) ==
    IF r.found THEN Append(rs, RowOf(sch, el, r)) ELSE rs

\* rows.append({...})
AppendRow(rs, sch, el, r) == Append(rs, RowOf(sch, el, r))

---------------------------------------------------------------------------
(* Presenters: server.py lines 149-206 *)

\* items = [r for r in rows if r["Schuler"] == sch]
ItemsOf(rs, sch) == SelectSeq(rs, LAMBDA r : r.Schuler = sch)

\* The dict `out` of api_schuler, as the sequence of its entries in insertion order.
JsonGroups(rs) ==
    [i \in 1..Len(SCHULERS) |->
        [sch |-> SCHULERS[i].name, dp_id |-> SCHULERS[i].dp,
         items |-> ItemsOf(rs, SCHULERS[i].name)]]

\* next((x for x in rows if x["Schuler"] == sch and x["EL_ID"] == el), None):
\* the index of the first such row, 0 for None.
NextRow(rs, sch, el) ==
    LET hits == {k \in 1..Len(rs) : rs[k].Schuler = sch /\ rs[k].EL_ID = el}
    IN  IF hits = {} THEN 0 ELSE CHOOSE k \in hits : \A j \in hits : k <= j

\* CellText without the test for None: str(None).
CellText_StrOfNone(rs, k, field) ==
    IF k = 0 THEN <<>>
    ELSE IF rs[k][field].none THEN <<"N", "o", "n", "e">>
    ELSE rs[k][field].s

\* "" if not r or r[field] is None else str(r[field])
CellText(rs, k, field) ==
    IF k = 0 THEN <<>>
    ELSE IF rs[k][field].none THEN <<>>
    ELSE rs[k][field].s

\* One <tr>: the label cell, the value cell and the timestamp cell, each as
\* the text placed between <td> and </td>.
TableRow(rs, sch, el) ==
    LET k == NextRow(rs, sch, el)
    IN  [label |-> Etiqueta(el),
         val   |-> CellText(rs, k, "Valor"),
         ts    |-> CellText(rs, k, "FechaHora")]

\* The list `sections` of dashboard_schuler.
HtmlSections(rs) ==
    [i \in 1..Len(SCHULERS) |->
        [h2 |-> SCHULERS[i].name, dp_id |-> SCHULERS[i].dp,
         trs |-> [j \in 1..Len(EL_IDS) |-> TableRow(rs, SCHULERS[i].name, EL_IDS[j])]]]

---------------------------------------------------------------------------
(* The handlers *)

\* A request arrives on one of the routes.
Receive(q, routes) ==
    /\ pc[q] = "idle"
    /\ \E route \in routes :
        /\ ep' = [ep EXCEPT ![q] = route]
        /\ \E a \in (IF route = "/value" THEN PathArgs ELSE {NoArg}) :
              arg' = [arg EXCEPT ![q] = a]
    /\ pc' = [pc EXCEPT ![q] = "get_conn"]
    /\ UNCHANGED <<dbExists, store, writes, cell, rows, ret, con, resp, fault, seen>>

\* The request ends with response a; build_rows, if it was called, raised.
\* f is the store failure behind it ("none": the store did what was asked).
Raise(q, a, f) ==
    /\ pc' = [pc EXCEPT ![q] = "done"]
    /\ fault' = [fault EXCEPT ![q] = f]
    /\ resp' = [resp EXCEPT ![q] = a]
    /\ rows' = [rows EXCEPT ![q] = <<>>]
    /\ ret' = [ret EXCEPT ![q] = IF ep[q] = "/value" THEN "n/a" ELSE "raised"]

\* get_conn: DB_PATH does not exist.
get_conn_absent(q) ==
    /\ pc[q] = "get_conn"
    /\ ~dbExists
    /\ Raise(q, HTTPException500, "absent")
    /\ UNCHANGED <<dbExists, store, writes, ep, arg, cell, con, seen>>

\* get_conn: sqlite3.connect raises.
get_conn_connect_fails(q) ==
    /\ pc[q] = "get_conn"
    /\ dbExists
    /\ Raise(q, Unhandled("sqlite3.Error"), "connect")
    /\ UNCHANGED <<dbExists, store, writes, ep, arg, cell, con, seen>>

\* get_conn: the connection is made and con.execute("PRAGMA ...") raises.
\* Nothing closes the connection.
get_conn_pragma_fails(q) ==
    /\ pc[q] = "get_conn"
    /\ dbExists
    /\ con' = [con EXCEPT ![q] = [@ EXCEPT !.opened = @ + 1, !.open = TRUE]]
    /\ Raise(q, Unhandled("sqlite3.Error"), "pragma")
    /\ UNCHANGED <<dbExists, store, writes, ep, arg, cell, seen>>

\* get_conn returns the connection.
get_conn(q) ==
    /\ pc[q] = "get_conn"
    /\ dbExists
    /\ con' = [con EXCEPT ![q] = [@ EXCEPT !.opened = @ + 1, !.open = TRUE]]
    /\ pc' = [pc EXCEPT ![q] = IF ep[q] = "/value" THEN "fetch" ELSE "build_rows"]
    /\ ret' = [ret EXCEPT ![q] = IF ep[q] = "/value" THEN "n/a" ELSE "running"]
    /\ seen' = [seen EXCEPT ![q] = {store}]
    /\ UNCHANGED <<fault, dbExists, store, writes, ep, arg, cell, rows, resp>>

\* con.close() of a finally clause.
Close(q) ==
    con' = [con EXCEPT ![q] = [@ EXCEPT !.closed = @ + 1, !.open = FALSE]]

\* build_rows: one iteration of the loops.
build_rows_cell(q) ==
    /\ pc[q] = "build_rows"
    /\ cell[q] <= NumCells
    /\ con[q].open
    /\ \E r \in fetch_last(store, CellSchuler(cell[q]).dp, CellEl(cell[q])) :
          rows' = [rows EXCEPT ![q] = AppendRow(@, CellSchuler(cell[q]), CellEl(cell[q]), r)]
    /\ cell' = [cell EXCEPT ![q] = @ + 1]
    /\ UNCHANGED <<fault, dbExists, store, writes, pc, ep, arg, ret, con, resp, seen>>

\* build_rows: the query of one iteration raises; finally closes the connection.
build_rows_cell_fails(q) ==
    /\ pc[q] = "build_rows"
    /\ cell[q] <= NumCells
    /\ con[q].open
    /\ Close(q)
    /\ Raise(q, Unhandled("sqlite3.Error"), "query")
    /\ UNCHANGED <<dbExists, store, writes, ep, arg, cell, seen>>

\* build_rows returns (finally closes the connection) and api_schuler answers.
api_schuler(q) ==
    /\ pc[q] = "build_rows"
    /\ cell[q] > NumCells
    /\ ep[q] = "/api/schuler"
    /\ Close(q)
    /\ ret' = [ret EXCEPT ![q] = "returned"]
    /\ resp' = [resp EXCEPT ![q] = [NoResp EXCEPT !.status = 200, !.json = JsonGroups(rows[q])]]
    /\ pc' = [pc EXCEPT ![q] = "done"]
    /\ UNCHANGED <<fault, dbExists, store, writes, ep, arg, cell, rows, seen>>

\* build_rows returns (finally closes the connection) and dashboard_schuler answers.
dashboard_schuler(q) ==
    /\ pc[q] = "build_rows"
    /\ cell[q] > NumCells
    /\ ep[q] = "/dashboard/schuler"
    /\ Close(q)
    /\ ret' = [ret EXCEPT ![q] = "returned"]
    /\ resp' = [resp EXCEPT ![q] = [NoResp EXCEPT !.status = 200, !.html = HtmlSections(rows[q])]]
    /\ pc' = [pc EXCEPT ![q] = "done"]
    /\ UNCHANGED <<fault, dbExists, store, writes, ep, arg, cell, rows, seen>>

\* if not r: raise HTTPException(404, ...); return r
ValueResponse(r) ==
    IF ~r.found THEN HTTPException404
    ELSE [NoResp EXCEPT !.status = 200, !.value = r]

\* get_value_by_path: fetch_last, finally close, then 404 or the record.
get_value_by_path(q) ==
    /\ pc[q] = "fetch"
    /\ ~arg[q].wide
    /\ con[q].open
    /\ Close(q)
    /\ \E r \in fetch_last(store, arg[q].dp_id, arg[q].el_id) :
          resp' = [resp EXCEPT ![q] = ValueResponse(r)]
    /\ pc' = [pc EXCEPT ![q] = "done"]
    /\ UNCHANGED <<fault, dbExists, store, writes, ep, arg, cell, rows, ret, seen>>

\* get_value_by_path: the query raises; finally closes the connection.
get_value_by_path_fails(q) ==
    /\ pc[q] = "fetch"
    /\ ~arg[q].wide
    /\ con[q].open
    /\ Close(q)
    /\ Raise(q, Unhandled("sqlite3.Error"), "query")
    /\ UNCHANGED <<dbExists, store, writes, ep, arg, cell, seen>>

\* get_value_by_path: binding a dp_id that is no SQLite INTEGER raises
\* OverflowError; finally closes the connection.
get_value_by_path_overflow(q) ==
    /\ pc[q] = "fetch"
    /\ arg[q].wide
    /\ con[q].open
    /\ Close(q)
    /\ Raise(q, Unhandled("OverflowError"), "none")
    /\ UNCHANGED <<dbExists, store, writes, ep, arg, cell, seen>>

\* The external writer of last_value replaces the record of one key.
Writer ==
    /\ writes < MaxWrites
    /\ \E rec \in WriterRecords :
        /\ rec \notin store
        /\ store' = (store \ Matching(store, rec.dp_id, rec.el_id)) \cup {rec}
    /\ writes' = writes + 1
    /\ seen' = [q \in Requests |-> IF con[q].open THEN seen[q] \cup {store'} ELSE seen[q]]
    /\ UNCHANGED <<fault, dbExists, pc, ep, arg, cell, rows, ret, con, resp>>

Handler(q) ==
    \/ Receive(q, Routes)
    \/ get_conn_absent(q)
    \/ get_conn_connect_fails(q)
    \/ get_conn_pragma_fails(q)
    \/ get_conn(q)
    \/ build_rows_cell(q)
    \/ build_rows_cell_fails(q)
    \/ api_schuler(q)
    \/ dashboard_schuler(q)
    \/ get_value_by_path(q)
    \/ get_value_by_path_fails(q)
    \/ get_value_by_path_overflow(q)

InitRequests ==
    /\ writes = 0
    /\ pc = [q \in Requests |-> "idle"]
    /\ ep = [q \in Requests |-> ""]
    /\ arg = [q \in Requests |-> NoArg]
    /\ cell = [q \in Requests |-> 1]
    /\ rows = [q \in Requests |-> <<>>]
    /\ ret = [q \in Requests |-> "n/a"]
    /\ con = [q \in Requests |-> NoConn]
    /\ resp = [q \in Requests |-> NoResp]
    /\ fault = [q \in Requests |-> "none"]
    /\ seen = [q \in Requests |-> {}]

\* One request on a store of any content that does not change.
Init ==
    /\ dbExists \in BOOLEAN
    /\ store \in Stores
    /\ InitRequests

Next == Handler("r1")

Spec == Init /\ [][Next]_vars

\* A request that assembles the rows and a request for one pair side by side,
\* each on its own connection, while the external writer fills the store; the
\* store does what it is asked.
InitConc ==
    /\ dbExists = TRUE
    /\ store = {}
    /\ InitRequests

NextConc ==
    \/ Writer
    \/ Receive("r1", {"/api/schuler", "/dashboard/schuler"})
    \/ Receive("r2", {"/value"})
    \/ \E q \in Requests :
          \/ get_conn(q)
          \/ build_rows_cell(q)
          \/ api_schuler(q)
          \/ dashboard_schuler(q)
          \/ get_value_by_path(q)
          \/ get_value_by_path_overflow(q)

SpecConc == InitConc /\ [][NextConc]_vars

---------------------------------------------------------------------------
(* Properties *)

Machines == 1..Len(SCHULERS)
Elements == 1..Len(EL_IDS)

\* Position of (machine i, element j) in machine-major order.
Pos(i, j) == (i - 1) * Len(EL_IDS) + j

\* build_rows() returned the list rows[q].
Returned(q) == ret[q] = "returned"

\* Request q was answered.
Answered(q, route) == pc[q] = "done" /\ ep[q] = route

\* The indexes of the rows of rs for machine i and element j.
RowsFor(rs, i, j) ==
    {k \in 1..Len(rs) : rs[k].Schuler = SCHULERS[i].name /\ rs[k].EL_ID = EL_IDS[j]}

\* C1: a successful build_rows() returns |SCHULERS| x |EL_IDS| rows, exactly
\* one for every configured machine and element, and the row of a pair the
\* store holds no record for has a null Valor and a null FechaHora.
C1_OneRowPerPair ==
    \A q \in Requests : Returned(q) =>
        /\ Len(rows[q]) = Len(SCHULERS) * Len(EL_IDS)
        /\ \A i \in Machines, j \in Elements :
              /\ Cardinality(RowsFor(rows[q], i, j)) = 1
              /\ Matching(store, SCHULERS[i].dp, EL_IDS[j]) = {} =>
                    \A k \in RowsFor(rows[q], i, j) :
                        rows[q][k].Valor.none /\ rows[q][k].FechaHora.none

\* build_rows() returned on an empty table: every row is null-valued.
C1_Witness ==
    \E q \in Requests :
        /\ Returned(q)
        /\ store = {}
        /\ \A k \in 1..Len(rows[q]) : rows[q][k].Valor.none

\* o's stored time is not after m's (NULL is before every time).
StoredNotAfter(o, m) ==
    \/ o.system_time.isnull
    \/ ~m.system_time.isnull /\ o.system_time.ns <= m.system_time.ns

\* C2: fetch_last returns no record exactly when the store holds none for
\* the pair, and otherwise a record whose stored timestamp is the maximum
\* among the records of the pair.
C2_ReturnsLatestStored ==
    \A q \in Requests :
        (Answered(q, "/value") /\ fault[q] = "none" /\ ~arg[q].wide) =>
            LET recs == Matching(store, arg[q].dp_id, arg[q].el_id)
            IN  /\ (resp[q].status = 404) <=> (recs = {})
                /\ resp[q].status = 200 =>
                      \E m \in recs :
                          /\ resp[q].value = SelectColumns(m)
                          /\ \A o \in recs : StoredNotAfter(o, m)

\* C3: in every row build_rows() returns, Valor is null if and only if
\* FechaHora is null.
C3_NullPairing ==
    \A q \in Requests : Returned(q) =>
        \A k \in 1..Len(rows[q]) : rows[q][k].Valor.none <=> rows[q][k].FechaHora.none

\* The text a cell shows for a field of a row.
Shown(x) == IF x.none THEN <<>> ELSE x.s

\* C4: the rows are in machine-major order, machines as in SCHULERS and
\* elements as in EL_IDS; /api/schuler has one entry per machine, in that
\* order, holding that machine's rows in their order; the dashboard has one
\* section per machine and one table row per element in the same order.
C4_ConfiguredOrder ==
    \A q \in Requests :
        /\ Returned(q) =>
              /\ Len(rows[q]) = Len(SCHULERS) * Len(EL_IDS)
              /\ \A i \in Machines, j \in Elements :
                    /\ rows[q][Pos(i, j)].Schuler = SCHULERS[i].name
                    /\ rows[q][Pos(i, j)].DP = SCHULERS[i].dp
                    /\ rows[q][Pos(i, j)].EL_ID = EL_IDS[j]
        /\ (Answered(q, "/api/schuler") /\ resp[q].status = 200) =>
              /\ Len(resp[q].json) = Len(SCHULERS)
              /\ \A i \in Machines :
                    /\ resp[q].json[i].sch = SCHULERS[i].name
                    /\ resp[q].json[i].dp_id = SCHULERS[i].dp
                    /\ resp[q].json[i].items = SubSeq(rows[q], Pos(i, 1), Pos(i, Len(EL_IDS)))
        /\ (Answered(q, "/dashboard/schuler") /\ resp[q].status = 200) =>
              /\ Len(resp[q].html) = Len(SCHULERS)
              /\ \A i \in Machines :
                    /\ resp[q].html[i].h2 = SCHULERS[i].name
                    /\ resp[q].html[i].dp_id = SCHULERS[i].dp
                    /\ Len(resp[q].html[i].trs) = Len(EL_IDS)
                    /\ \A j \in Elements :
                          /\ resp[q].html[i].trs[j].label = DPELEMENT_BY_EL[EL_IDS[j]]
                          /\ resp[q].html[i].trs[j].val = Shown(rows[q][Pos(i, j)].Valor)
                          /\ resp[q].html[i].trs[j].ts = Shown(rows[q][Pos(i, j)].FechaHora)

\* /api/schuler answered with one machine that has a value and another
\* machine all of whose rows are null-valued.
C4_Witness ==
    \E q \in Requests :
        /\ Answered(q, "/api/schuler")
        /\ resp[q].status = 200
        /\ \E i \in Machines : \E k \in Elements : ~resp[q].json[i].items[k].Valor.none
        /\ \E i \in Machines : \A k \in Elements : resp[q].json[i].items[k].Valor.none

\* C5: a request that met an unavailable store (file absent, connection not
\* made, a failing statement) ends with a server error, never NotFound and
\* never a dataset: build_rows() returns no row list and no body is produced.
C5_UnavailableIsServerError ==
    \A q \in Requests : pc[q] = "done" =>
        /\ ~dbExists => fault[q] = "absent"
        /\ fault[q] # "none" =>
              /\ resp[q].status = 500
              /\ ~Returned(q)
              /\ rows[q] = <<>>
              /\ resp[q].json = <<>>
              /\ resp[q].html = <<>>
              /\ resp[q].value = NoRow
        /\ resp[q].status \in {200, 404} => fault[q] = "none"

\* /api/schuler failed on a query after rows had been collected.
C5_Witness ==
    \E q \in Requests :
        /\ Answered(q, "/api/schuler")
        /\ fault[q] = "query"
        /\ cell[q] > 1

\* C6: with the store available, /value/{dp_id}/{el_id} answers 404 exactly
\* when the store holds no record for the pair, whatever the pair, and
\* otherwise 200 with the record fetch_last returns.
C6_NotFoundIffNoRecord ==
    \A q \in Requests :
        (Answered(q, "/value") /\ fault[q] = "none") =>
            LET recs == IF arg[q].wide THEN {}
                        ELSE Matching(store, arg[q].dp_id, arg[q].el_id)
            IN  /\ (resp[q].status = 404) <=> (recs = {})
                /\ resp[q].status # 404 =>
                      /\ resp[q].status = 200
                      /\ resp[q].value \in fetch_last(store, arg[q].dp_id, arg[q].el_id)

\* C7: a request opens at most one connection, and every connection that
\* was opened has been closed, once, when the request has ended.
C7_ConnectionReleased ==
    \A q \in Requests :
        /\ con[q].opened <= 1
        /\ con[q].closed <= con[q].opened
        /\ pc[q] = "done" => (~con[q].open /\ con[q].closed = con[q].opened)

\* html.escape of one character.
EscapeChar(c) ==
    CASE c = "&"  -> <<"&", "a", "m", "p", ";">>
      [] c = "<"  -> <<"&", "l", "t", ";">>
      [] c = ">"  -> <<"&", "g", "t", ";">>
      [] c = "\"" -> <<"&", "q", "u", "o", "t", ";">>
      [] c = "'"  -> <<"&", "#", "x", "2", "7", ";">>
      [] OTHER    -> <<c>>

RECURSIVE HtmlEscape(_)
HtmlEscape(t) == IF t = <<>> THEN <<>> ELSE EscapeChar(Head(t)) \o HtmlEscape(Tail(t))

\* C8: the value cell and the timestamp cell of the dashboard hold the
\* escaped form of the stored text.
C8_CellsEscaped ==
    \A q \in Requests :
        (Answered(q, "/dashboard/schuler") /\ resp[q].status = 200) =>
            \A i \in Machines, j \in Elements :
                /\ resp[q].html[i].trs[j].val = HtmlEscape(Shown(rows[q][Pos(i, j)].Valor))
                /\ resp[q].html[i].trs[j].ts = HtmlEscape(Shown(rows[q][Pos(i, j)].FechaHora))

\* The label claimed for element el.
ClaimedLabel(el) ==
    IF el \in DOMAIN DPELEMENT_BY_EL THEN DPELEMENT_BY_EL[el] ELSE "el_" \o ToString(el)

\* The part of C9 that does not concern when a cell is empty: one table row
\* per machine and element with the configured label, which is the label of
\* the row; an element without a label is shown as "el_<id>"; the JSON items
\* carry the rows' fields, null included; a presenter answers whenever
\* build_rows() returned.
C9_LabelsAndJson ==
    /\ Etiqueta(999) = "el_999"
    /\ \A q \in Requests :
        /\ Returned(q) => resp[q].status = 200
        /\ (Answered(q, "/api/schuler") /\ resp[q].status = 200) =>
              \A i \in Machines, j \in Elements :
                  /\ resp[q].json[i].items[j].Valor = rows[q][Pos(i, j)].Valor
                  /\ resp[q].json[i].items[j].FechaHora = rows[q][Pos(i, j)].FechaHora
        /\ (Answered(q, "/dashboard/schuler") /\ resp[q].status = 200) =>
              /\ Len(resp[q].html) = Len(SCHULERS)
              /\ \A i \in Machines :
                    /\ Len(resp[q].html[i].trs) = Len(EL_IDS)
                    /\ \A j \in Elements :
                          /\ resp[q].html[i].trs[j].label = ClaimedLabel(EL_IDS[j])
                          /\ resp[q].html[i].trs[j].label = rows[q][Pos(i, j)].DPELEMENT

\* C9 as stated: in addition, a value or timestamp cell is the empty string
\* exactly when the row's field is null, and the field's text otherwise.
C9_EmptyExactlyWhenNull ==
    /\ C9_LabelsAndJson
    /\ \A q \in Requests :
        (Answered(q, "/dashboard/schuler") /\ resp[q].status = 200) =>
            \A i \in Machines, j \in Elements :
                LET tr == resp[q].html[i].trs[j]
                    r  == rows[q][Pos(i, j)]
                IN  /\ (tr.val = <<>>) <=> r.Valor.none
                    /\ (tr.ts = <<>>) <=> r.FechaHora.none
                    /\ ~r.Valor.none => tr.val = r.Valor.s
                    /\ ~r.FechaHora.none => tr.ts = r.FechaHora.s

\* C9 as amended: a cell is the empty string when the row's field is null
\* and the field's text otherwise, so it is empty only when the field is
\* null or is the empty text.
C9_NullRendersEmpty ==
    /\ C9_LabelsAndJson
    /\ \A q \in Requests :
        (Answered(q, "/dashboard/schuler") /\ resp[q].status = 200) =>
            \A i \in Machines, j \in Elements :
                LET tr == resp[q].html[i].trs[j]
                    r  == rows[q][Pos(i, j)]
                IN  /\ r.Valor.none => tr.val = <<>>
                    /\ r.FechaHora.none => tr.ts = <<>>
                    /\ ~r.Valor.none => tr.val = r.Valor.s
                    /\ ~r.FechaHora.none => tr.ts = r.FechaHora.s
                    /\ (tr.val = <<>>) <=> (r.Valor.none \/ r.Valor.s = <<>>)
                    /\ (tr.ts = <<>>) <=> r.FechaHora.none

\* The dashboard answered with the stored value 0 shown as "0" in one cell
\* and a null field shown as an empty cell in another.
C9_Witness ==
    \E q \in Requests :
        /\ Answered(q, "/dashboard/schuler")
        /\ resp[q].status = 200
        /\ \E i \in Machines, j \in Elements :
              /\ resp[q].html[i].trs[j].val = <<"0">>
              /\ rows[q][Pos(i, j)].FechaHora.none
              /\ resp[q].html[i].trs[j].ts = <<>>

\* The rows build_rows() may return on store content st.
RowsOfSnapshot(st, rs) ==
    /\ Len(rs) = Len(SCHULERS) * Len(EL_IDS)
    /\ \A i \in Machines, j \in Elements :
          \E r \in fetch_last(st, SCHULERS[i].dp, EL_IDS[j]) :
              rs[Pos(i, j)] = RowOf(SCHULERS[i], EL_IDS[j], r)

\* C10: all rows of one build_rows() result are the last values of one
\* store content that existed while the request ran.
C10_SingleSnapshot ==
    \A q \in Requests : Returned(q) =>
        \E st \in seen[q] : RowsOfSnapshot(st, rows[q])

====
